---- MODULE Spec2Model ----
(***************************************************************************)
(* A model of the incremental indexing and retrieval engine:              *)
(*   chunker.py              chunk_text (token windows with overlap)      *)
(*   indexer.py              FaissIndexer (add / save / load / query)     *)
(*   embedder.py             embed_texts (sub-batches, retries, backoff)  *)
(*   incremental_indexer.py  IncrementalIndexBuilder and its callers      *)
(*   retriever_api.py        the /query endpoint                          *)
(*                                                                         *)
(* The specifications share the variables:                                 *)
(*   SpecChunk  one call of chunk_text, one loop iteration per step       *)
(*   SpecChunkFair  the same, the loop running on once it has started     *)
(*   SpecQuery  a FaissIndexer that is added to and queried               *)
(*   SpecStore  a FaissIndexer that is added to, saved and loaded         *)
(*   SpecStoreCrash  the same, the process ending inside save()           *)
(*   SpecApi    the retriever service answering one request after another *)
(*   SpecEmbed  one call of embed_texts, one remote call per step         *)
(*   Spec       repeated indexing runs over one document stream, with     *)
(*              abrupt termination between any two writes to disk         *)
(*   SpecAgain  the same, process_documents being called again on the     *)
(*              same Builder after a failed flush                         *)
(***************************************************************************)
EXTENDS Integers, Sequences, FiniteSets, TLC

VARIABLES
    chunker,    \* the frame of one chunk_text call
    indexer,    \* the FaissIndexer object of the process: index, metadatas
    query,      \* the last FaissIndexer.query call and what it returned
    builder,    \* the frame of process_documents and the Builder's fields
    disk,       \* the four persisted artifacts
    stream,     \* the document stream every run iterates from its start
    config,     \* the Builder's constructor arguments
    embedder,   \* the frame of one embed_texts call
    api,        \* the retriever service: its state and its last request
    hist        \* history of the runs (what was observed, not program state)

vars == <<chunker, indexer, query, builder, disk, stream, config, embedder,
          api, hist>>

Min(a, b) == IF a <= b THEN a ELSE b

Max(a, b) == IF a >= b THEN a ELSE b

Range(s) == {s[i] : i \in DOMAIN s}

(***************************************************************************)
(* Bounds of the model.                                                    *)
(***************************************************************************)
\* chunker.py line 33 sets max_chunks = 1000; the model scales the cap down so
\* that a window sequence running into the cap can be enumerated.
max_chunks == 5

MaxTokens == 8      \* longest token sequence given to chunk_text

MaxWindow == 4      \* largest max_tokens given to chunk_text

MaxOverlap == 3     \* largest overlap given to chunk_text

MaxIndex == 3       \* most records a queried index holds

MaxK == 3           \* largest k given to FaissIndexer.query

MaxDocs == 2        \* longest document stream, the sample stream apart

MaxDocId == 2       \* document ids 1..MaxDocId

MaxBatch == 2       \* largest batch_size, the sample run's apart

MaxRuns == 2        \* indexing runs in one behaviour

MaxTexts == 4       \* most texts given to one embed_texts call

\* embedder.py line 35 sets batch_size = 50; the model scales the sub-batch
\* down so that a call of a few texts spans several sub-batches.
SubBatch == 2

(***************************************************************************)
(* Texts.  A text is known by what the tokenizer makes of it: "empty" and *)
(* "blank" (whitespace only) texts, texts the encoder rejects ("bad"),    *)
(* and texts of len tokens.  Token i of a text is written i; undec is the *)
(* set of tokens the decoder cannot turn back into text.                  *)
(***************************************************************************)
Text(kind, len, undec) == [kind |-> kind, len |-> len, undec |-> undec]

EmptyText == Text("empty", 0, {})

BlankText == Text("blank", 0, {})

BadText == Text("bad", 0, {})

OkText(len) == Text("ok", len, {})

\* the test without the strip(): only the empty string counts as blank
IsEmptyOnly(text) == text.kind = "empty"

\* chunker.py line 11, incremental_indexer.py line 98: not text or not text.strip()
IsBlank(text) == text.kind \in {"empty", "blank"}

\* ENCODER.encode: the token sequence, or a raise
Encode(text) ==
    IF text.kind = "bad"
    THEN [raised |-> TRUE, tokens |-> <<>>]
    ELSE [raised |-> FALSE, tokens |-> [i \in 1..text.len |-> i - 1]]

\* Python's s[a:b] on a sequence of length n: negative bounds count from the
\* end, and both are clamped into 0..n
PyBound(i, n) == IF i < 0 THEN Max(i + n, 0) ELSE Min(i, n)

PySlice(s, a, b) ==
    LET lo == PyBound(a, Len(s))
        hi == PyBound(b, Len(s))
    IN  IF lo < hi THEN SubSeq(s, lo + 1, hi) ELSE <<>>

\* ENCODER.decode: the text of a token window is the window itself; it raises
\* when the window holds a token that cannot be decoded
DecodeRaises(text, chunk_tokens) ==
    \E i \in DOMAIN chunk_tokens : chunk_tokens[i] \in text.undec

(***************************************************************************)
(* chunk_text.  A frame holds the locals of the call; LoopBody is one     *)
(* iteration of the while loop.                                            *)
(***************************************************************************)
NoFrame ==
    [pc |-> "idle", text |-> EmptyText, max_tokens |-> 0, overlap |-> 0,
     tokens |-> <<>>, start |-> 0, idx |-> 0, chunks |-> <<>>]

\* lines 7-30: the early returns, then start = 0, chunks = [], idx = 0
Enter(text, max_tokens, overlap) ==
    LET enc == Encode(text)
        f == [NoFrame EXCEPT !.text = text, !.max_tokens = max_tokens,
                             !.overlap = overlap]
    IN  IF IsBlank(text) THEN [f EXCEPT !.pc = "done"]
        ELSE IF enc.raised THEN [f EXCEPT !.pc = "done"]
        ELSE IF Len(enc.tokens) = 0 THEN [f EXCEPT !.pc = "done"]
        ELSE [f EXCEPT !.pc = "loop", !.tokens = enc.tokens]

\* the loop without its safety limit
LoopCondNoCap(f) == f.start < Len(f.tokens)

\* line 35
LoopCond(f) == f.start < Len(f.tokens) /\ f.idx < max_chunks

\* lines 36-53
LoopBody(f) ==
    LET end == Min(f.start + f.max_tokens, Len(f.tokens))
        chunk_tokens == PySlice(f.tokens, f.start, end)
    IN  IF DecodeRaises(f.text, chunk_tokens)
        THEN [f EXCEPT !.start = end - f.overlap]
        ELSE [f EXCEPT !.chunks = Append(f.chunks,
                                         [id |-> f.idx,
                                          text |-> chunk_tokens,
                                          start_token |-> f.start,
                                          end_token |-> end]),
                       !.idx = f.idx + 1,
                       !.start = end - f.overlap]

\* one step of the call: an iteration, or the return of line 60
Step(f) == IF LoopCond(f) THEN LoopBody(f) ELSE [f EXCEPT !.pc = "done"]

RECURSIVE RunLoop(_)
RunLoop(f) == IF f.pc = "loop" THEN RunLoop(Step(f)) ELSE f

\* chunk_text as its callers see it: the returned list.  Only for texts whose
\* windows all decode, where each iteration emits a chunk and the cap ends it.
chunk_text(text, max_tokens, overlap) ==
    RunLoop(Enter(text, max_tokens, overlap)).chunks

(***************************************************************************)
(* SpecChunk: one chunk_text call on any bounded input.                    *)
(***************************************************************************)
ChunkInputs ==
    {Text(k, 0, {}) : k \in {"empty", "blank", "bad"}}
    \cup {Text("ok", n, u) : n \in 1..MaxTokens,
                             u \in {{}} \cup {{p} : p \in 0..(MaxTokens - 1)}}

ChunkCall ==
    /\ chunker.pc = "idle"
    /\ \E text \in {t \in ChunkInputs : t.undec \subseteq 0..(t.len - 1)},
          m \in (-1)..MaxWindow, o \in (-1)..MaxOverlap :
            chunker' = Enter(text, m, o)
    /\ UNCHANGED <<api, embedder, indexer, query, builder, disk, stream, config, hist>>

ChunkStep ==
    /\ chunker.pc = "loop"
    /\ chunker' = Step(chunker)
    /\ UNCHANGED <<api, embedder, indexer, query, builder, disk, stream, config, hist>>

(***************************************************************************)
(* Vectors.  The model works in two dimensions on vectors of integral     *)
(* length, so that L2 normalisation is exact: a unit vector is kept in    *)
(* fixed point, as Unit times its coordinates, and an inner product of    *)
(* two unit vectors is an integer in units of 1 / Unit^2.                 *)
(***************************************************************************)
\* a common multiple of the lengths of the vectors below
Unit == 2 * 5

Vectors == {<<1, 0>>, <<2, 0>>, <<0, 1>>, <<3, 4>>, <<-1, 0>>}

Norm(v) == CHOOSE n \in 0..(Unit * Unit) : n * n = v[1] * v[1] + v[2] * v[2]

\* faiss.normalize_L2: v / |v|, a zero vector is left as it is
normalize_L2(v) ==
    IF Norm(v) = 0 THEN v
    ELSE <<(v[1] * Unit) \div Norm(v), (v[2] * Unit) \div Norm(v)>>

InnerProduct(a, b) == a[1] * b[1] + a[2] * b[2]

\* the distance faiss reports for a missing result (-3.4028235e+38, with label -1)
NegFltMax == 0 - (Unit * Unit * Unit * Unit)

(***************************************************************************)
(* FaissIndexer.                                                           *)
(***************************************************************************)
\* __init__, lines 12-15
NewIndexer == [index |-> <<>>, metadatas |-> <<>>]

\* add, lines 17-23
FaissAdd(ix, vectors, metadatas) ==
    [index |-> ix.index \o [i \in DOMAIN vectors |-> normalize_L2(vectors[i])],
     metadatas |-> ix.metadatas \o metadatas]

\* IndexFlatIP.search(v, k): every output faiss may give.  Label j (from 0) is
\* the j-th added vector.  The min(k, ntotal) best by inner product come first,
\* best first, in any order among equal scores; the missing results are padded
\* with label -1.
IndexSearch(index, v, k) ==
    LET n == Len(index)
        r == Min(k, n)
        score(j) == InnerProduct(index[j + 1], v)
        best == {s \in [1..r -> 0..(n - 1)] :
                    /\ \A a, b \in 1..r : a < b =>
                            s[a] # s[b] /\ score(s[a]) >= score(s[b])
                    /\ \A j \in 0..(n - 1) : \A a \in 1..r :
                            j \in {s[b] : b \in 1..r} \/ score(j) <= score(s[a])}
    IN  {[i \in 1..k |-> IF i <= r THEN [score |-> score(s[i]), idx |-> s[i]]
                                   ELSE [score |-> NegFltMax, idx |-> -1]] :
            s \in best}

\* Python's s[i]: a negative subscript counts from the end; out of range raises
PyItemRaises(s, i) == i >= Len(s) \/ i < 0 - Len(s)

PyItem(s, i) == IF i < 0 THEN s[i + Len(s) + 1] ELSE s[i + 1]

\* query, lines 45-50: the loop over the hits of the search
QueryResults(ix, hits) ==
    LET kept == SelectSeq(hits, LAMBDA h : h.idx < Len(ix.metadatas))
    IN  IF \E i \in DOMAIN kept : PyItemRaises(ix.metadatas, kept[i].idx)
        THEN [raised |-> "IndexError", results |-> <<>>]
        ELSE [raised |-> "none",
              results |-> [i \in DOMAIN kept |->
                              [score |-> kept[i].score,
                               metadata |-> PyItem(ix.metadatas, kept[i].idx)]]]

NoQuery ==
    [called |-> FALSE, vector |-> <<0, 0>>, k |-> 0, raised |-> "none",
     results |-> <<>>]

(***************************************************************************)
(* SpecQuery: an indexer that is added to and queried.                     *)
(***************************************************************************)
\* a metadata record of the n-th record of a queried index
Tag(n) == [doc_id |-> <<"id", 0>>, chunk_id |-> n, text |-> <<>>]

IndexAdd ==
    /\ \E vectors \in UNION {[1..n -> Vectors] : n \in 1..2} :
          /\ Len(indexer.index) + Len(vectors) <= MaxIndex
          /\ indexer' = FaissAdd(indexer, vectors,
                                 [i \in DOMAIN vectors |->
                                     Tag(Len(indexer.metadatas) + i)])
    /\ query' = NoQuery
    /\ UNCHANGED <<api, embedder, chunker, builder, disk, stream, config, hist>>

\* query, lines 40-50
IndexQuery ==
    /\ \E vector \in Vectors, k \in 1..MaxK :
          \E hits \in IndexSearch(indexer.index, normalize_L2(vector), k) :
             LET res == QueryResults(indexer, hits)
             IN  query' = [called |-> TRUE, vector |-> vector, k |-> k,
                           raised |-> res.raised, results |-> res.results]
    /\ UNCHANGED <<api, embedder, chunker, indexer, builder, disk, stream, config, hist>>

(***************************************************************************)
(* The embedding client.  The remote model is a fixed function of the text *)
(* and of the task type it is requested with.  A frame holds the locals of *)
(* one embed_texts call; EmbedStep is one remote call, which succeeds or   *)
(* fails.  requests and sleeps record what the call asked of the service   *)
(* and how long it waited after a failure.                                 *)
(***************************************************************************)
VectorList == <<<<1, 0>>, <<2, 0>>, <<0, 1>>, <<3, 4>>, <<-1, 0>>>>

\* genai.embed_content: the two task types give the same text vectors of
\* different directions
embed_content(text, task_type) ==
    LET h == Len(text) + (IF text = <<>> THEN 0 ELSE text[1])
             + (IF task_type = "retrieval_query" THEN 2 ELSE 0)
    IN  VectorList[(h % Len(VectorList)) + 1]

\* line 12: the default of max_retries, which no caller overrides
max_retries == 3

NoCall ==
    [pc |-> "idle", texts |-> <<>>, max_retries |-> 0, i |-> 0, attempt |-> 0,
     pos |-> 0, batch_embeddings |-> <<>>, embeddings |-> <<>>,
     requests |-> <<>>, sleeps |-> <<>>]

\* an attempt that goes on with what the failed attempt had collected
AttemptKeeps(f) ==
    IF f.attempt >= f.max_retries
    THEN [f EXCEPT !.pc = "next"]
    ELSE [f EXCEPT !.pc = "batch", !.pos = 0]

\* lines 45-48: the next attempt at the sub-batch, if one is left
AttemptStart(f) ==
    IF f.attempt >= f.max_retries
    THEN [f EXCEPT !.pc = "next"]
    ELSE [f EXCEPT !.pc = "batch", !.pos = 0, !.batch_embeddings = <<>>]

\* lines 38-45 and 70-71: the sub-batch that starts at text i, or the return
RECURSIVE BatchStart(_, _)
BatchStart(f, i) ==
    IF i >= Len(f.texts)
    THEN [f EXCEPT !.pc = "done", !.i = i]
    ELSE LET g == AttemptStart([f EXCEPT !.i = i, !.attempt = 0])
         IN  IF g.pc = "next" THEN BatchStart(g, i + SubBatch) ELSE g

\* lines 14-19 and 35-38
EmbedEnter(texts, retries) ==
    LET f == [NoCall EXCEPT !.texts = texts, !.max_retries = retries]
    IN  IF Len(texts) = 1 /\ retries > 0
        THEN [f EXCEPT !.pc = "single"]
        ELSE BatchStart(f, 0)

Request(f, text, task_type, ok) ==
    Append(f.requests, [text |-> text, task_type |-> task_type,
                        at |-> IF f.pc = "single" THEN 1 ELSE f.i + f.pos + 1,
                        attempt |-> f.attempt, ok |-> ok])

\* lines 27-32 and 62-68: the except clause
Failed(f) ==
    IF f.attempt < f.max_retries - 1
    THEN [f EXCEPT !.sleeps = Append(f.sleeps, 2 ^ f.attempt),
                   !.attempt = f.attempt + 1]
    ELSE [f EXCEPT !.pc = "raised"]

\* lines 19-32: one attempt of the single-text branch
SingleStep(f, ok) ==
    LET g == [f EXCEPT !.requests =
                          Request(f, f.texts[1], "retrieval_query", ok)]
    IN  IF ok
        THEN [g EXCEPT !.pc = "done",
                       !.embeddings =
                           <<embed_content(f.texts[1], "retrieval_query")>>]
        ELSE Failed(g)

\* lines 49-68: one remote call of an attempt at a sub-batch
BatchStep(f, ok) ==
    LET text == f.texts[f.i + f.pos + 1]
        size == Min(SubBatch, Len(f.texts) - f.i)
        g == [f EXCEPT !.requests =
                          Request(f, text, "retrieval_document", ok)]
        got == Append(f.batch_embeddings,
                      embed_content(text, "retrieval_document"))
    IN  IF ok
        THEN IF f.pos + 1 < size
             THEN [g EXCEPT !.batch_embeddings = got, !.pos = f.pos + 1]
             ELSE BatchStart([g EXCEPT !.batch_embeddings = got,
                                       !.pos = f.pos + 1,
                                       !.embeddings = f.embeddings \o got],
                             f.i + SubBatch)
        ELSE LET h == Failed(g)
             IN  IF h.pc = "raised" THEN h ELSE AttemptStart(h)

EmbedStep(f, ok) == IF f.pc = "single" THEN SingleStep(f, ok) ELSE BatchStep(f, ok)

RECURSIVE RunEmbed(_, _)
RunEmbed(f, ok) ==
    IF f.pc \in {"single", "batch"} THEN RunEmbed(EmbedStep(f, ok), ok) ELSE f

\* embed_texts as the Builder sees it, lines 12-71, with the service down
\* through every attempt or up through the call
embed_texts(texts, down) ==
    LET f == RunEmbed(EmbedEnter(texts, max_retries), ~down)
    IN  [raised |-> f.pc = "raised", vectors |-> f.embeddings]

(***************************************************************************)
(* SpecEmbed: one embed_texts call, one remote call per step.              *)
(***************************************************************************)
EmbedTexts == {<<0>>, <<0, 1>>, <<1, 2>>}

EmbedCall ==
    /\ embedder.pc = "idle"
    /\ \E texts \in UNION {[1..n -> EmbedTexts] : n \in 0..MaxTexts},
          retries \in 1..max_retries :
            embedder' = EmbedEnter(texts, retries)
    /\ UNCHANGED <<api, chunker, indexer, query, builder, disk, stream, config, hist>>

EmbedRemote ==
    /\ embedder.pc \in {"single", "batch"}
    /\ \E ok \in BOOLEAN : embedder' = EmbedStep(embedder, ok)
    /\ UNCHANGED <<api, chunker, indexer, query, builder, disk, stream, config, hist>>

(***************************************************************************)
(* Documents and the persisted artifacts.                                  *)
(***************************************************************************)
\* Strings are sequences of characters, and a character is a small number:
\* a letter, a blank, a character the encoder rejects.
Letter == 1

Blank == 2

Reject == 3

\* the characters of a text: one letter for each of its tokens
Chars(text) ==
    IF text.kind = "ok" THEN [i \in 1..text.len |-> Letter]
    ELSE IF text.kind = "blank" THEN <<Blank>>
    ELSE IF text.kind = "bad" THEN <<Reject>>
    ELSE <<>>

\* hashlib.md5(...).hexdigest(), taken as free of collisions: a number that
\* two strings share only when they are the same string
RECURSIVE md5(_)
md5(str) == IF str = <<>> THEN 0 ELSE str[1] + 4 * md5(Tail(str))

\* a document that carries an id; key tells whether the 'id' key is there
\* and holds a value ("int"), is there and holds None ("none"), or is not
\* there ("missing")
Doc(id, text) == [key |-> "int", id |-> id, text |-> text, url |-> <<>>]

\* a document without an 'id' key, with its metadata.url
Anon(text, url) == [key |-> "missing", id |-> 0, text |-> text, url |-> url]

\* fetch_rest_api, lines 116-125: 'id': record.get('id') is in the document
\* whether the record has an id or not
FetchRestApi(record) ==
    [record EXCEPT !.key = IF record.key = "missing" THEN "none" ELSE record.key]

\* _get_doc_id, lines 52-58: str(doc['id']) when the key is there, else the
\* md5 of text + metadata.url
GetDocId(doc) ==
    IF doc.key = "int" THEN <<"id", doc.id>>
    ELSE IF doc.key = "none" THEN <<"None", 0>>
    ELSE <<"md5", md5(Chars(doc.text) \o doc.url)>>

\* a file: absent, or holding data
Absent(empty) == [exists |-> FALSE, data |-> empty]

File(data) == [exists |-> TRUE, data |-> data]

\* nothing was ever written: no checkpoint directory content, no index files
FreshDisk ==
    [processed_ids |-> Absent({}),
     checkpoint_info |-> Absent([docs_processed |-> 0, total_chunks |-> 0,
                                 processed_ids_count |-> 0]),
     index |-> Absent(<<>>),
     meta |-> Absent(<<>>)]

(***************************************************************************)
(* IncrementalIndexBuilder.                                                *)
(***************************************************************************)
CheckpointEvery == 10

\* no process is running.  checkpoints, last and since record what the run did:
\* the checkpoints it wrote, its last step, and the flushes it completed since
\* its last checkpoint write
NoBuilder ==
    [pc |-> "idle", processed_ids |-> {}, total_chunks |-> 0,
     batch_texts |-> <<>>, batch_metadatas |-> <<>>,
     docs_processed |-> 0, docs_skipped |-> 0, pos |-> 1,
     final |-> FALSE, checkpoints |-> 0, last |-> "none", since |-> 0]

\* a Builder that starts from an empty set whatever the checkpoint holds
LoadNoProcessedIds(d) == {}

\* _load_processed_ids, lines 38-44
LoadProcessedIds(d) ==
    IF d.processed_ids.exists THEN d.processed_ids.data ELSE {}

\* FaissIndexer.load, lines 31-38, on a fresh FaissIndexer
FaissLoad(d) ==
    IF d.index.exists /\ d.meta.exists
    THEN [index |-> d.index.data, metadatas |-> d.meta.data]
    ELSE NewIndexer

\* __init__, lines 21-36, and lines 75-78 of process_documents
NewBuilder(d) ==
    [NoBuilder EXCEPT !.pc = "iter", !.processed_ids = LoadProcessedIds(d)]

\* a Builder without the skip of line 90
NeverProcessed(b, doc_id) == FALSE

\* line 90
AlreadyProcessed(b, doc_id) == doc_id \in b.processed_ids

\* a Builder that marks no document
MarkNothing(b, doc_id) == b.processed_ids

\* line 119
MarkProcessed(b, doc_id) == b.processed_ids \cup {doc_id}

\* lines 105-116: the metadata record of each chunk, in order
ChunkMetadatas(doc_id, chunks) ==
    [i \in DOMAIN chunks |->
        [doc_id |-> doc_id, chunk_id |-> chunks[i].id, text |-> chunks[i].text]]

\* a flush that adds its records and counts them before the embedding call
\* has returned
ProcessBatchAddsFirst(b, ix, texts, metadatas, down) ==
    [raised |-> embed_texts(texts, down).raised,
     total_chunks |-> b.total_chunks + Len(texts),
     indexer |-> FaissAdd(ix, embed_texts(texts, FALSE).vectors, metadatas)]

\* a flush that counts every text and leaves the last record out of the index
ProcessBatchDropsLast(b, ix, texts, metadatas, down) ==
    LET emb == embed_texts(texts, down)
        n == Len(texts) - 1
    IN  IF emb.raised
        THEN [raised |-> TRUE, total_chunks |-> b.total_chunks, indexer |-> ix]
        ELSE [raised |-> FALSE,
              total_chunks |-> b.total_chunks + Len(texts),
              indexer |-> FaissAdd(ix, SubSeq(emb.vectors, 1, n),
                                   SubSeq(metadatas, 1, n))]

\* _process_batch, lines 145-162: what the call leaves behind, raised or not
ProcessBatch(b, ix, texts, metadatas, down) ==
    LET emb == embed_texts(texts, down)
    IN  IF emb.raised
        THEN [raised |-> TRUE, total_chunks |-> b.total_chunks, indexer |-> ix]
        ELSE [raised |-> FALSE,
              total_chunks |-> b.total_chunks + Len(texts),
              indexer |-> FaissAdd(ix, emb.vectors, metadatas)]

\* line 128
CheckpointDue(b) ==
    b.docs_processed % (config.batch_size * CheckpointEvery) = 0

\* lines 86-129: one iteration of the loop over the documents.  down: the
\* embedding service is down for the flush of this iteration, if there is one.
DocStep(b, ix, doc, down) ==
    LET doc_id == GetDocId(doc)
        next == [b EXCEPT !.pos = b.pos + 1]
    IN  IF AlreadyProcessed(b, doc_id)
        THEN [builder |-> [next EXCEPT !.docs_skipped = b.docs_skipped + 1,
                                       !.last = "skipped"],
              indexer |-> ix]
        ELSE IF IsBlank(doc.text)
        THEN [builder |-> [next EXCEPT !.last = "blank"], indexer |-> ix]
        ELSE
          LET chunks == chunk_text(doc.text, config.chunk_size,
                                   config.chunk_overlap)
              queued ==
                [next EXCEPT
                    !.batch_texts =
                        b.batch_texts \o [i \in DOMAIN chunks |-> chunks[i].text],
                    !.batch_metadatas =
                        b.batch_metadatas \o ChunkMetadatas(doc_id, chunks),
                    !.docs_processed = b.docs_processed + 1,
                    !.processed_ids = MarkProcessed(b, doc_id),
                    !.last = "chunked"]
              flush == ProcessBatch(queued, ix, queued.batch_texts,
                                    queued.batch_metadatas, down)
              flushed == [queued EXCEPT !.total_chunks = flush.total_chunks,
                                        !.batch_texts = <<>>,
                                        !.batch_metadatas = <<>>,
                                        !.last = "flushed",
                                        !.since = b.since + 1]
          IN  IF Len(queued.batch_texts) < config.batch_size
              THEN [builder |-> queued, indexer |-> ix]
              ELSE IF flush.raised
              THEN [builder |-> [queued EXCEPT
                                    !.pc = "raised",
                                    !.total_chunks = flush.total_chunks],
                    indexer |-> flush.indexer]
              ELSE IF CheckpointDue(flushed)
              THEN [builder |-> [flushed EXCEPT !.pc = "checkpoint"],
                    indexer |-> flush.indexer]
              ELSE [builder |-> flushed, indexer |-> flush.indexer]

\* an end of stream that goes to the final checkpoint without the flush
EndStepNoFlush(b, ix, down) ==
    [builder |-> [b EXCEPT !.pc = "checkpoint", !.final = TRUE, !.last = "end"],
     indexer |-> ix]

\* lines 131-136: the flush of what is left, up to the final checkpoint
EndStep(b, ix, down) ==
    LET flush == ProcessBatch(b, ix, b.batch_texts, b.batch_metadatas, down)
    IN  IF b.batch_texts = <<>>
        THEN [builder |-> [b EXCEPT !.pc = "checkpoint", !.final = TRUE,
                                    !.last = "end"],
              indexer |-> ix]
        ELSE IF flush.raised
        THEN [builder |-> [b EXCEPT !.pc = "raised", !.last = "end",
                                    !.total_chunks = flush.total_chunks],
              indexer |-> flush.indexer]
        ELSE [builder |-> [b EXCEPT !.pc = "checkpoint", !.final = TRUE,
                                    !.total_chunks = flush.total_chunks,
                                    !.last = "flushed",
                                    !.since = b.since + 1],
              indexer |-> flush.indexer]

\* lines 167-172
CheckpointInfo(b) ==
    [docs_processed |-> b.docs_processed, total_chunks |-> b.total_chunks,
     processed_ids_count |-> Cardinality(b.processed_ids)]

(***************************************************************************)
(* Spec: indexing runs.  A run is build_index_from_jsonl (lines 207-229):  *)
(* a fresh FaissIndexer that loads what is on disk, a fresh Builder that   *)
(* loads the processed ids, process_documents over the stream, and         *)
(* indexer.save().  The process may die between any two steps; what it     *)
(* held in memory is then gone and the files stay as they are.             *)
(***************************************************************************)
NoRun == [end |-> "none", last |-> "none", checkpoints |-> 0]

\* loaded: what the process found on disk at its start;
\* failed: the ids of the documents whose chunks were in a flush that failed
\* in this process; unsaved: the ids the last process had marked in memory and
\* no checkpoint had written when it ended
NoHist ==
    [runs |-> 0, loaded |-> [index |-> 0, metadatas |-> 0, ids |-> {}],
     prev |-> NoRun,
     failed |-> {}, unsaved |-> {}]

\* lines 219-225
StartRun ==
    /\ builder.pc = "idle"
    /\ hist.runs < MaxRuns
    /\ indexer' = FaissLoad(disk)
    /\ builder' = NewBuilder(disk)
    /\ hist' = [hist EXCEPT !.runs = hist.runs + 1,
                            !.loaded =
                                [index |-> Len(FaissLoad(disk).index),
                                 metadatas |-> Len(FaissLoad(disk).metadatas),
                                 ids |-> LoadProcessedIds(disk)]]
    /\ UNCHANGED <<api, embedder, chunker, query, disk, stream, config>>

\* lines 86-129
HandleDoc ==
    /\ builder.pc = "iter"
    /\ builder.pos <= Len(stream)
    /\ \E down \in BOOLEAN :
          LET r == DocStep(builder, indexer, stream[builder.pos], down)
          IN  builder' = r.builder /\ indexer' = r.indexer
    /\ UNCHANGED <<api, embedder, chunker, query, disk, stream, config, hist>>

\* lines 131-136
EndOfStream ==
    /\ builder.pc = "iter"
    /\ builder.pos > Len(stream)
    /\ \E down \in BOOLEAN :
          LET r == EndStep(builder, indexer, down)
          IN  builder' = r.builder /\ indexer' = r.indexer
    /\ UNCHANGED <<api, embedder, chunker, query, disk, stream, config, hist>>

\* _save_checkpoint, line 166: _save_processed_ids, lines 46-50
SaveProcessedIds ==
    /\ builder.pc = "checkpoint"
    /\ disk' = [disk EXCEPT !.processed_ids = File(builder.processed_ids)]
    /\ builder' = [builder EXCEPT !.pc = "checkpoint_info", !.last = "save_ids"]
    /\ UNCHANGED <<api, embedder, chunker, indexer, query, stream, config, hist>>

\* _save_checkpoint, lines 167-178
SaveCheckpointInfo ==
    /\ builder.pc = "checkpoint_info"
    /\ disk' = [disk EXCEPT !.checkpoint_info = File(CheckpointInfo(builder))]
    /\ builder' = [builder EXCEPT
                      !.pc = IF builder.final THEN "save" ELSE "iter",
                      !.checkpoints = builder.checkpoints + 1,
                      !.last = "checkpoint",
                      !.since = 0]
    /\ UNCHANGED <<api, embedder, chunker, indexer, query, stream, config, hist>>

\* FaissIndexer.save, line 27
SaveIndex ==
    /\ builder.pc = "save"
    /\ disk' = [disk EXCEPT !.index = File(indexer.index)]
    /\ builder' = [builder EXCEPT !.pc = "save_meta", !.last = "save_index"]
    /\ UNCHANGED <<api, embedder, chunker, indexer, query, stream, config, hist>>

\* FaissIndexer.save, lines 28-29
SaveMeta ==
    /\ builder.pc = "save_meta"
    /\ disk' = [disk EXCEPT !.meta = File(indexer.metadatas)]
    /\ builder' = [builder EXCEPT !.pc = "done", !.last = "save_meta"]
    /\ UNCHANGED <<api, embedder, chunker, indexer, query, stream, config, hist>>

\* what the history keeps of a run that ended
RunEnded(end) ==
    [hist EXCEPT !.prev = [end |-> end, last |-> builder.last,
                           checkpoints |-> builder.checkpoints],
                 !.failed = {},
                 !.unsaved = builder.processed_ids \ LoadProcessedIds(disk)]

\* the process ends: line 229 was reached, or the exception of a failed flush
\* left process_documents and build_index_from_jsonl
Exit ==
    /\ builder.pc \in {"done", "raised"}
    /\ hist' = RunEnded(IF builder.pc = "done" THEN "complete" ELSE "raised")
    /\ builder' = NoBuilder
    /\ indexer' = NewIndexer
    /\ UNCHANGED <<api, embedder, chunker, query, disk, stream, config>>

\* abrupt termination
Crash ==
    /\ builder.pc \in {"iter", "checkpoint", "checkpoint_info", "save",
                       "save_meta"}
    /\ hist' = RunEnded("crashed")
    /\ builder' = NoBuilder
    /\ indexer' = NewIndexer
    /\ UNCHANGED <<api, embedder, chunker, query, disk, stream, config>>

\* process_documents is called again on the same Builder, with the same
\* indexer and over the same stream, after a flush failed: lines 75-78 start
\* the locals afresh, the Builder keeps processed_ids and total_chunks
CallAgain ==
    /\ builder.pc = "raised"
    /\ builder' = [builder EXCEPT !.pc = "iter", !.pos = 1,
                                  !.batch_texts = <<>>,
                                  !.batch_metadatas = <<>>,
                                  !.docs_processed = 0, !.docs_skipped = 0,
                                  !.last = "again", !.since = 0]
    /\ hist' = [hist EXCEPT !.failed =
                    hist.failed \cup {builder.batch_metadatas[i].doc_id :
                                         i \in DOMAIN builder.batch_metadatas}]
    /\ UNCHANGED <<api, embedder, chunker, indexer, query, disk, stream, config>>

(***************************************************************************)
(* The streams and constructor arguments of the runs.                      *)
(***************************************************************************)
DocTexts == {EmptyText, BlankText, BadText, OkText(1)}

Documents == {Doc(i, t) : i \in 1..MaxDocId, t \in DocTexts}

Streams == UNION {[1..n -> Documents] : n \in 0..MaxDocs}

\* chunk_size and chunk_overlap (300 and 50 by default, lines 25-26) in the
\* scale of the texts above: windows of two tokens, without and with overlap
ChunkSettings == {<<2, 0>>, <<2, 1>>}

Config(batch_size, cs) ==
    [batch_size |-> batch_size, chunk_size |-> cs[1], chunk_overlap |-> cs[2]]

\* documents without an id: two texts, without and with a url
Urls == {<<>>, <<Letter>>}

AnonDocs == {Anon(t, u) : t \in {OkText(1), OkText(2)}, u \in Urls}

AnonStreams == UNION {[1..n -> AnonDocs] : n \in 1..MaxDocs}

\* the same records as the REST source delivers them
RestStream(records) == [i \in DOMAIN records |-> FetchRestApi(records[i])]

\* the sample run, lines 238-254: ten documents with ids 0..9 and a short text
SampleDocs == 10

SampleBatch == 5

SampleStream == [i \in 1..SampleDocs |-> Doc(i - 1, OkText(1))]

\* a stream that goes on after the first periodic checkpoint of line 128: one
\* document more than batch_size * 10 documents, for batch_size = 1
LongStream == [i \in 1..(CheckpointEvery + 1) |-> Doc(i - 1, OkText(1))]

NoConfig == Config(1, <<1, 0>>)

\* retriever_api.py, line 29: no request yet, indexer = None
NoRequest ==
    [question |-> <<>>, top_k |-> 0, down |-> FALSE, blocked |-> FALSE,
     raised |-> "none", vector |-> <<0, 0>>, searched |-> FALSE,
     results |-> <<>>, generated |-> FALSE, status |-> 0, detail |-> <<>>,
     answer |-> <<>>, retrieved |-> <<>>]

NoApi == [pc |-> "down", last |-> NoRequest, failures |-> {}]

Idle ==
    /\ chunker = NoFrame
    /\ indexer = NewIndexer
    /\ query = NoQuery
    /\ builder = NoBuilder
    /\ disk = FreshDisk
    /\ embedder = NoCall
    /\ api = NoApi
    /\ hist = NoHist

Init ==
    /\ Idle
    /\ \/ /\ stream \in Streams
          /\ config \in {Config(n, cs) : n \in 1..MaxBatch, cs \in ChunkSettings}
       \/ /\ stream \in AnonStreams \cup {RestStream(r) : r \in AnonStreams}
          /\ config \in {Config(n, cs) : n \in 1..MaxBatch, cs \in ChunkSettings}
       \/ /\ stream = SampleStream
          /\ config \in {Config(n, cs) : n \in {1, SampleBatch},
                                         cs \in ChunkSettings}
       \/ /\ stream = LongStream
          /\ config \in {Config(1, <<2, 0>>), Config(MaxBatch, <<2, 1>>)}

Next ==
    \/ StartRun
    \/ HandleDoc
    \/ EndOfStream
    \/ SaveProcessedIds
    \/ SaveCheckpointInfo
    \/ SaveIndex
    \/ SaveMeta
    \/ Exit
    \/ Crash

Spec == Init /\ [][Next]_vars

\* the runs in which a caller catches the exception of a failed flush and
\* calls process_documents again
InitAgain ==
    /\ Idle
    /\ stream \in {st \in Streams : \A i \in DOMAIN st : st[i].text # EmptyText}
    /\ config \in {Config(n, cs) : n \in 1..MaxBatch, cs \in ChunkSettings}

NextAgain == Next \/ CallAgain

SpecAgain == InitAgain /\ [][NextAgain]_vars

InitChunk == Idle /\ stream = <<>> /\ config = NoConfig

NextChunk == ChunkCall \/ ChunkStep

SpecChunk == InitChunk /\ [][NextChunk]_vars

\* a call of chunk_text that has started runs on: nothing but the loop itself
\* can keep it from its next iteration.  An iteration that leaves every local
\* as it was is the loop running forever: the behaviour stays in that state.
SpecChunkFair == SpecChunk /\ WF_vars(ChunkStep)

NextQuery == IndexAdd \/ IndexQuery

NextEmbed == EmbedCall \/ EmbedRemote

SpecEmbed == InitChunk /\ [][NextEmbed]_vars

SpecQuery == InitChunk /\ [][NextQuery]_vars

(***************************************************************************)
(* Properties of chunk_text (SpecChunk).                                   *)
(***************************************************************************)
ChunkReturned == chunker.pc = "done" /\ chunker.text.kind = "ok"

ValidParameters == chunker.max_tokens > chunker.overlap /\ chunker.overlap >= 0

\* the windows of step max_tokens - overlap that cover the text are no more
\* than the cap lets through
UnderCap ==
    chunker.text.len
        <= chunker.max_tokens
             + (max_chunks - 1) * (chunker.max_tokens - chunker.overlap)

\* C7: for a text of L >= 1 tokens whose windows all decode and max_tokens >
\* overlap >= 0, the returned chunks cover [0, L) from 0 to L, consecutive
\* starts differ by exactly max_tokens - overlap, no chunk is longer than
\* max_tokens, and consecutive chunks overlap by exactly overlap tokens.
C7_WindowsCoverWithStep ==
    (ChunkReturned /\ ValidParameters /\ UnderCap /\ chunker.text.undec = {})
    => LET c == chunker.chunks
           n == Len(c)
       IN  /\ n >= 1
           /\ c[1].start_token = 0
           /\ c[n].end_token = chunker.text.len
           /\ \A i \in 1..n : c[i].end_token - c[i].start_token
                                 <= chunker.max_tokens
           /\ \A i \in 1..(n - 1) :
                 /\ c[i + 1].start_token - c[i].start_token
                       = chunker.max_tokens - chunker.overlap
                 /\ c[i].end_token - c[i + 1].start_token = chunker.overlap

\* C8: a call whose parameters violate max_tokens > overlap >= 0 fails fast: it
\* never enters the windowing loop and emits no chunk.
C8_InvalidParametersFailFast ==
    (chunker.pc # "idle" /\ ~ValidParameters /\ chunker.text.kind = "ok")
    => chunker.pc # "loop" /\ chunker.chunks = <<>>

\* the windows of step max_tokens - overlap over the text: window k is there
\* when window k - 1 has not reached the end of the text
StepWindows ==
    LET m == chunker.max_tokens
        step == chunker.max_tokens - chunker.overlap
        L == chunker.text.len
    IN  {<<k * step, Min(k * step + m, L)>> :
            k \in {j \in 0..L : j = 0 \/ (j - 1) * step + m < L}}

Decodes(w) == ~DecodeRaises(chunker.text, PySlice(chunker.tokens, w[1], w[2]))

Emitted ==
    {<<chunker.chunks[i].start_token, chunker.chunks[i].end_token>> :
        i \in DOMAIN chunker.chunks}

\* what a call with max_tokens > overlap >= 0 returns when windows fail to
\* decode: every window that decodes, and no window that does not
EmitsTheOthers ==
    (ChunkReturned /\ ValidParameters /\ UnderCap)
    => /\ \A w \in StepWindows : Decodes(w) => w \in Emitted
       /\ \A w \in Emitted : Decodes(w)

\* C16: for max_tokens > overlap >= 0, a call in which windows fail to decode,
\* the last window of the text included, still terminates; it skips only the
\* failing windows and emits every other window.
C16_DecodeFailureCannotStall ==
    /\ []EmitsTheOthers
    /\ (chunker.pc = "loop" /\ ValidParameters /\ chunker.text.undec # {})
          ~> chunker.pc = "done"

\* at most max_chunks chunks, numbered from 0 in the order of emission
CappedAndNumbered ==
    /\ Len(chunker.chunks) <= max_chunks
    /\ \A i \in DOMAIN chunker.chunks : chunker.chunks[i].id = i - 1

\* C17: for every text and every max_tokens and overlap, overlap >= max_tokens
\* included, a call in which no decode fails terminates and returns at most
\* max_chunks chunks, whose ids are chunk_0 .. chunk_(n-1) in emission order.
C17_HardCap ==
    /\ []CappedAndNumbered
    /\ (chunker.pc = "loop" /\ chunker.text.undec = {}) ~> chunker.pc = "done"

\* a call whose windows cannot advance returned what the cap let through
C17_Witness ==
    /\ chunker.pc = "done"
    /\ chunker.text.undec = {}
    /\ chunker.overlap >= chunker.max_tokens
    /\ chunker.max_tokens > 0
    /\ Len(chunker.chunks) = max_chunks
    /\ chunker.chunks[max_chunks].end_token < chunker.text.len

(***************************************************************************)
(* Properties of FaissIndexer.query (SpecQuery).                           *)
(***************************************************************************)
\* C9: query(v, k) on an index of n records returns without raising, returns
\* exactly min(k, n) results, and no stored record twice.
C9_QueryReturnsMinKN ==
    query.called
    => /\ query.raised = "none"
       /\ Len(query.results) = Min(query.k, Len(indexer.index))
       /\ \A i, j \in DOMAIN query.results :
             i # j => query.results[i].metadata # query.results[j].metadata

\* C10: the results query(probe, k) returns are in descending order of score, each
\* is a stored record with its similarity to the probe as score, no record is
\* returned twice, and no record left out is more similar than one returned.
C10_QueryRanksBySimilarity ==
    (query.called /\ query.raised = "none")
    => LET res == query.results
           sim(j) == InnerProduct(indexer.index[j],
                                  normalize_L2(query.vector))
           at(i) == {j \in DOMAIN indexer.metadatas :
                        indexer.metadatas[j] = res[i].metadata}
       IN  /\ \A i \in DOMAIN res : \A j \in DOMAIN res :
                 i < j => /\ res[i].score >= res[j].score
                          /\ res[i].metadata # res[j].metadata
           /\ \A i \in DOMAIN res :
                 \E j \in at(i) : res[i].score = sim(j)
           /\ \A j \in DOMAIN indexer.index :
                 \/ \E i \in DOMAIN res : j \in at(i)
                 \/ \A i \in DOMAIN res : sim(j) <= res[i].score

(***************************************************************************)
(* Properties of the indexing runs (Spec).                                 *)
(***************************************************************************)
HasText(doc) == doc.text.kind \notin {"empty", "blank"}

\* the positions of the stream that carry doc_id with a text
Carriers(doc_id) ==
    {i \in DOMAIN stream : GetDocId(stream[i]) = doc_id /\ HasText(stream[i])}

\* the records of the document indexed under doc_id: those of the first
\* document of the stream that carries the id with a text
RecordsOf(doc_id) ==
    LET first == CHOOSE i \in Carriers(doc_id) :
                    \A j \in Carriers(doc_id) : i <= j
    IN  ChunkMetadatas(doc_id,
                       chunk_text(stream[first].text, config.chunk_size,
                                  config.chunk_overlap))

\* a record that is on disk in both the metadata and the index artifact
Persisted(m) ==
    \E i \in DOMAIN disk.meta.data :
        disk.meta.data[i] = m /\ i <= Len(disk.index.data)

\* C1: every document id of the persisted processed-id artifact has all its
\* chunks as records of the persisted index and metadata artifacts.
C1_ProcessedIdsAreIndexed ==
    \A doc_id \in disk.processed_ids.data :
        Carriers(doc_id) # {}
        => \A m \in Range(RecordsOf(doc_id)) : Persisted(m)

\* a run that completed and persisted, started after a run that did the same
SecondRunDone == builder.pc = "done" /\ hist.prev.end = "complete"

AddedNothing ==
    /\ Len(indexer.index) = hist.loaded.index
    /\ Len(indexer.metadatas) = hist.loaded.metadatas
    /\ Len(disk.index.data) = hist.loaded.index
    /\ Len(disk.meta.data) = hist.loaded.metadatas
    /\ builder.total_chunks = 0
    /\ builder.docs_processed = 0

\* C2, as claimed: the run after a complete run adds no chunk, leaves the chunk
\* count as it was, and reports every document of the stream as skipped.
C2_SecondRunSkipsAll ==
    SecondRunDone => AddedNothing /\ builder.docs_skipped = Len(stream)

\* C2, amended: the run after a complete run adds no chunk, leaves the chunk
\* count as it was, and reports as skipped exactly the documents whose id some
\* document of the stream carries with a text; a blank document under an id
\* that never had a text is passed over and counted neither way.
C2_SecondRunSkipsProcessed ==
    SecondRunDone
    => /\ AddedNothing
       /\ builder.docs_skipped
            = Cardinality({i \in DOMAIN stream :
                              Carriers(GetDocId(stream[i])) # {}})

C2_Witness ==
    /\ SecondRunDone
    /\ hist.loaded.metadatas > 0
    /\ builder.docs_skipped > 0
    /\ builder.docs_skipped < Len(stream)

\* C3: in the sample run (10 documents, batch_size 5), a restart after the
\* process died right after the first checkpoint write of the first run skips
\* exactly 5 documents and processes exactly the other 5.
C3_CrashResume ==
    (/\ stream = SampleStream
     /\ config.batch_size = SampleBatch
     /\ hist.runs = 2
     /\ hist.prev = [end |-> "crashed", last |-> "checkpoint", checkpoints |-> 1]
     /\ builder.pc = "checkpoint"
     /\ builder.final)
    => builder.docs_skipped = 5 /\ builder.docs_processed = 5

NoPairTwice(metadatas) ==
    \A i, j \in DOMAIN metadatas :
        i < j => <<metadatas[i].doc_id, metadatas[i].chunk_id>>
                    # <<metadatas[j].doc_id, metadatas[j].chunk_id>>

\* C4: no (doc_id, chunk_id) pair appears more than once among the records of
\* the index, in memory or on disk, over any runs, crashes and failed flushes.
C4_AtMostOnce == NoPairTwice(indexer.metadatas) /\ NoPairTwice(disk.meta.data)

\* a later run skipped a document whose records the loaded index holds
C4_Witness ==
    /\ hist.runs = 2
    /\ hist.loaded.metadatas > 0
    /\ builder.last = "skipped"
    /\ \E i \in DOMAIN indexer.metadatas :
          indexer.metadatas[i].doc_id = GetDocId(stream[builder.pos - 1])

\* C5: when embed_texts raises in a flush, the step adds nothing to the index,
\* leaves total_chunks and every persisted artifact as they were, and the run
\* ends there: the only step after it is the end of the process.
C5_FailedFlushAborts ==
    [][/\ (builder.pc # "raised" /\ builder'.pc = "raised")
          => /\ indexer' = indexer
             /\ builder'.total_chunks = builder.total_chunks
             /\ disk' = disk
       /\ builder.pc = "raised"
          => /\ builder'.pc = "idle"
             /\ disk' = disk]_vars

\* a flush failed after an earlier flush had added records, documents left
C5_Witness ==
    /\ builder.pc = "raised"
    /\ builder.batch_texts # <<>>
    /\ indexer.metadatas # <<>>
    /\ builder.pos <= Len(stream)

\* every processed id, and every queued or indexed record, is of a document
\* that arrived with a text
C6_OnlyTextsAreProcessed ==
    /\ \A doc_id \in builder.processed_ids \cup disk.processed_ids.data :
          Carriers(doc_id) # {}
    /\ \A m \in Range(builder.batch_metadatas) \cup Range(indexer.metadatas)
                  \cup Range(disk.meta.data) :
          Carriers(m.doc_id) # {}

\* the iteration over a document whose id is not marked processed: a blank
\* one changes nothing but the position in the stream; one with a text is
\* marked processed and counted, and its chunks are queued or flushed
C6_Examined ==
    (/\ builder.pc = "iter"
     /\ builder.pos <= Len(stream)
     /\ builder'.pc # "idle"
     /\ GetDocId(stream[builder.pos]) \notin builder.processed_ids)
    => IF HasText(stream[builder.pos])
       THEN /\ GetDocId(stream[builder.pos]) \in builder'.processed_ids
            /\ builder'.docs_processed = builder.docs_processed + 1
            /\ builder'.docs_skipped = builder.docs_skipped
            /\ LET m == RecordsOf(GetDocId(stream[builder.pos]))
               IN  \/ m = <<>>
                   \/ m[1] \in Range(builder'.batch_metadatas)
                   \/ m[1] \in Range(indexer'.metadatas)
       ELSE /\ builder'.processed_ids = builder.processed_ids
            /\ builder'.docs_processed = builder.docs_processed
            /\ builder'.docs_skipped = builder.docs_skipped
            /\ builder'.batch_texts = builder.batch_texts
            /\ builder'.batch_metadatas = builder.batch_metadatas
            /\ builder'.total_chunks = builder.total_chunks
            /\ builder'.pc = "iter"
            /\ indexer' = indexer
            /\ disk' = disk

\* C6: a document with an empty or whitespace-only text is never added to the
\* processed ids nor counted as processed, in any run, and adds no chunk to
\* the buffer or the index; in every run it is examined again, not skipped as
\* processed, until its id arrives with a text, which is then chunked and
\* marked processed.
C6_BlankNeverProcessed == []C6_OnlyTextsAreProcessed /\ [][C6_Examined]_vars

\* a later run passes over a blank document again
C6_Witness == hist.runs = 2 /\ builder.last = "blank"

(***************************************************************************)
(* SpecStore: one FaissIndexer object that is added to, saved and loaded,  *)
(* every operation running to its end.                                     *)
(***************************************************************************)
\* a load that reads the index file and leaves the metadata list as it is
LoadIndexOnly(ix, d) ==
    IF d.index.exists /\ d.meta.exists
    THEN [index |-> d.index.data, metadatas |-> ix.metadatas]
    ELSE ix

\* FaissIndexer.load, lines 31-38, on any FaissIndexer: both files or nothing
IndexerLoad(ix, d) ==
    IF d.index.exists /\ d.meta.exists
    THEN [index |-> d.index.data, metadatas |-> d.meta.data]
    ELSE ix

\* FaissIndexer.save, lines 25-29
IndexerSave(ix, d) ==
    [d EXCEPT !.index = File(ix.index), !.meta = File(ix.metadatas)]

\* the metadata given with the n-th vector of the index: it names the vector
Pair(n, v) == [doc_id |-> <<"id", 0>>, chunk_id |-> n, text |-> v]

\* what the history keeps of the last operation on the store
StoreOp(op) == [hist EXCEPT !.prev = [end |-> "none", last |-> op,
                                      checkpoints |-> 0]]

\* the vectors given to the store: two of one direction, one of another
StoreVectors == {<<1, 0>>, <<2, 0>>, <<3, 4>>}

\* add, lines 17-23, with as many metadatas as vectors
StoreAdd ==
    /\ \E vectors \in UNION {[1..n -> StoreVectors] : n \in 1..2} :
          /\ Len(indexer.index) + Len(vectors) <= MaxIndex
          /\ indexer' = FaissAdd(indexer, vectors,
                                 [i \in DOMAIN vectors |->
                                     Pair(Len(indexer.metadatas) + i,
                                          vectors[i])])
    /\ query' = NoQuery
    /\ hist' = StoreOp("add")
    /\ UNCHANGED <<api, embedder, chunker, builder, disk, stream, config>>

\* save, lines 25-29
StoreSave ==
    /\ disk' = IndexerSave(indexer, disk)
    /\ hist' = StoreOp("save")
    /\ UNCHANGED <<api, embedder, chunker, indexer, query, builder, stream, config>>

\* load, lines 31-38
StoreLoad ==
    /\ indexer' = IndexerLoad(indexer, disk)
    /\ query' = NoQuery
    /\ hist' = StoreOp("load")
    /\ UNCHANGED <<api, embedder, chunker, builder, disk, stream, config>>

NextStore == StoreAdd \/ StoreSave \/ StoreLoad

SpecStore == InitChunk /\ [][NextStore]_vars

\* as many metadata records as vectors, and the i-th metadata record is the
\* one given with the i-th vector
LockStep(ix) ==
    /\ Len(ix.metadatas) = Len(ix.index)
    /\ \A i \in DOMAIN ix.metadatas :
          /\ ix.metadatas[i].chunk_id = i
          /\ ix.index[i] = normalize_L2(ix.metadatas[i].text)

\* a load that follows a save leaves the metadata sequence as it was and
\* every probe with the same possible results
RoundTrip ==
    (hist.prev.last = "save" /\ hist'.prev.last = "load")
    => /\ indexer'.metadatas = indexer.metadatas
       /\ \A v \in Vectors, k \in 1..MaxK :
             {QueryResults(indexer', h) :
                 h \in IndexSearch(indexer'.index, normalize_L2(v), k)}
             = {QueryResults(indexer, h) :
                 h \in IndexSearch(indexer.index, normalize_L2(v), k)}

\* C11: after any sequence of add, save and load operations the indexer holds
\* as many metadata records as vectors and metadata i belongs to the i-th added
\* vector, in memory and in the saved files; save() followed by load() yields
\* the same metadata sequence and the same query results for every probe.
C11_LockStepAndRoundTrip ==
    /\ [](LockStep(indexer)
          /\ LockStep([index |-> disk.index.data, metadatas |-> disk.meta.data]))
    /\ [][RoundTrip]_vars

\* a load brought back a saved index of two different vectors
C11_Witness ==
    /\ hist.prev.last = "load"
    /\ indexer.metadatas = disk.meta.data
    /\ indexer.index = disk.index.data
    /\ Len(indexer.index) >= 2
    /\ indexer.index[1] # indexer.index[2]

(***************************************************************************)
(* Properties of embed_texts (SpecEmbed).                                  *)
(***************************************************************************)
TaskTypes == {"retrieval_query", "retrieval_document"}

\* C12: when embed_texts returns, the list has one vector per text and the i-th
\* vector is the embedding of texts[i], whatever the number of sub-batches and
\* whatever attempts failed before the ones that succeeded.
C12_OneVectorPerTextInOrder ==
    embedder.pc = "done"
    => /\ Len(embedder.embeddings) = Len(embedder.texts)
       /\ \A i \in DOMAIN embedder.texts :
             \E t \in TaskTypes :
                embedder.embeddings[i] = embed_content(embedder.texts[i], t)

\* a call over several sub-batches returned after an attempt had failed past
\* the first text of a sub-batch, the texts being different
C12_Witness ==
    /\ embedder.pc = "done"
    /\ Len(embedder.texts) > SubBatch
    /\ embedder.texts[1] # embedder.texts[2]
    /\ \E j \in DOMAIN embedder.requests :
          /\ ~embedder.requests[j].ok
          /\ (embedder.requests[j].at - 1) % SubBatch # 0

\* the requests made for the text at position p of the call, in order
RequestsAt(p) ==
    SelectSeq(embedder.requests, LAMBDA r : r.at = p)

FailuresAt(p) == Len(SelectSeq(RequestsAt(p), LAMBDA r : ~r.ok))

\* the backoffs the failed requests call for: 2^a after failed attempt a,
\* unless it was the last attempt allowed
BackoffsDue ==
    LET failed == SelectSeq(embedder.requests,
                            LAMBDA r : ~r.ok
                                       /\ r.attempt < embedder.max_retries - 1)
    IN  [j \in DOMAIN failed |-> 2 ^ failed[j].attempt]

\* C14: each individual embedding call is attempted at most max_retries times,
\* a failed attempt a that is not the last is followed by a backoff of 2^a
\* seconds, the call raises exactly when one individual call has failed
\* max_retries times, and a call that succeeded is not made again.
C14_RetryPerCall ==
    embedder.pc # "idle"
    => /\ \A p \in DOMAIN embedder.texts :
             /\ Len(RequestsAt(p)) <= embedder.max_retries
             /\ \A j \in 1..(Len(RequestsAt(p)) - 1) : ~RequestsAt(p)[j].ok
       /\ embedder.sleeps = BackoffsDue
       /\ embedder.pc = "raised"
             <=> \E p \in DOMAIN embedder.texts :
                    FailuresAt(p) = embedder.max_retries

(***************************************************************************)
(* Properties of the embedding requests of the indexing runs (Spec).       *)
(***************************************************************************)
\* C13: every chunk text embedded in a flush of the Builder, whatever the
\* number of buffered chunks, is requested with the retrieval-document
\* variant: every vector of the index is the document embedding of the text
\* of its metadata record.
C13_ChunksEmbeddedAsDocuments ==
    \A i \in DOMAIN indexer.index :
        indexer.index[i]
            = normalize_L2(embed_content(indexer.metadatas[i].text,
                                         "retrieval_document"))

(***************************************************************************)
(* Properties of the document identity (Spec).                             *)
(***************************************************************************)
NoId(doc) == doc.key # "int"

\* the records of the document at position i of the stream
RecordsAt(i) ==
    ChunkMetadatas(GetDocId(stream[i]),
                   chunk_text(stream[i].text, config.chunk_size,
                              config.chunk_overlap))

\* C15: two documents without an id that differ in text or url get different
\* identifiers, and every document without an id that a source delivers is
\* indexed: when the first run over the stream has completed, no two such
\* documents were taken for one and the index holds the records of each.
C15_IdlessDocumentsIndexed ==
    (builder.pc = "done" /\ hist.runs = 1)
    => /\ \A i, j \in DOMAIN stream :
             (/\ NoId(stream[i]) /\ NoId(stream[j])
              /\ <<stream[i].text, stream[i].url>>
                    # <<stream[j].text, stream[j].url>>)
             => GetDocId(stream[i]) # GetDocId(stream[j])
       /\ \A i \in DOMAIN stream :
             NoId(stream[i])
             => Range(RecordsAt(i)) \subseteq Range(disk.meta.data)

(***************************************************************************)
(* Properties of a failed flush and what follows it (SpecAgain, Spec).     *)
(***************************************************************************)
\* the iteration that chunks a document marks it, whether its flush succeeds
\* or not: every document of the buffer of a failed flush is marked
MarkedBeforeEmbed ==
    builder.pc = "raised"
    => \A i \in DOMAIN builder.batch_metadatas :
          builder.batch_metadatas[i].doc_id \in builder.processed_ids

\* the documents of a failed flush stay marked in this Builder and none of
\* their chunks is in the index or in the buffer
FailedStayOut ==
    /\ builder.pc # "raised"
       => \A m \in Range(indexer.metadatas) \cup Range(builder.batch_metadatas) :
             m.doc_id \notin hist.failed
    /\ hist.failed \subseteq builder.processed_ids

\* in a call that follows a failed flush, a document of the failed batch is
\* skipped as already processed
FailedAreSkipped ==
    (/\ builder.pc = "iter"
     /\ builder.pos <= Len(stream)
     /\ GetDocId(stream[builder.pos]) \in hist.failed
     /\ builder'.pc # "idle")
    => /\ builder'.docs_skipped = builder.docs_skipped + 1
       /\ builder'.docs_processed = builder.docs_processed
       /\ builder'.batch_metadatas = builder.batch_metadatas
       /\ indexer' = indexer

\* C18: a document is marked processed in memory in the step that chunks and
\* buffers it, before the flush that embeds its chunks; when that flush fails
\* and process_documents is called again on the same Builder over the same
\* stream, the documents of the failed batch are skipped as already processed
\* and their chunks are never added to the index.
C18_MarkBeforeEmbed ==
    /\ [](MarkedBeforeEmbed /\ FailedStayOut)
    /\ [][FailedAreSkipped]_vars

\* the call after a failed flush has skipped a document of the failed batch
\* and has flushed chunks of another document
C18_Witness ==
    /\ hist.failed # {}
    /\ builder.pc = "iter"
    /\ builder.docs_skipped > 0
    /\ \E i \in 1..(builder.pos - 1) : GetDocId(stream[i]) \in hist.failed
    /\ builder.total_chunks > 0

\* how many records of the persisted metadata are the record m
Copies(m) == Cardinality({i \in DOMAIN disk.meta.data : disk.meta.data[i] = m})

\* a run completed after a process that had ended, by a crash or a failed
\* flush, with marked ids that no checkpoint had written
RestartDone ==
    /\ builder.pc = "done"
    /\ hist.prev.end \in {"crashed", "raised"}
    /\ hist.unsaved # {}

\* C19: when a process ended, by a crash or a failed flush, with ids marked in
\* memory that no checkpoint write had persisted, the restarted run does not
\* skip those documents, and once it has completed every document of the
\* stream with a text has its chunks in the persisted index exactly once.
C19_UnsavedMarksAreReplayed ==
    RestartDone
    => /\ Len(disk.index.data) = Len(disk.meta.data)
       /\ \A i \in DOMAIN stream :
             HasText(stream[i])
             => \A m \in Range(RecordsOf(GetDocId(stream[i]))) : Copies(m) = 1

(***************************************************************************)
(* Properties of the flushes of process_documents (Spec).                  *)
(***************************************************************************)
\* between two documents the buffer holds fewer than batch_size chunks, and
\* nothing at all while a periodic checkpoint is written
BufferBelowBatch ==
    /\ builder.pc = "iter" => Len(builder.batch_texts) < config.batch_size
    /\ (builder.pc \in {"checkpoint", "checkpoint_info"} /\ ~builder.final)
       => builder.batch_texts = <<>>
    /\ Len(builder.batch_texts) = Len(builder.batch_metadatas)

\* an iteration that leaves batch_size chunks or more in the buffer flushes:
\* the whole buffer goes to the index, in order, and the buffer is cleared
FlushTakesAll ==
    (builder.pc = "iter" /\ builder'.pc \in {"iter", "checkpoint"}
     /\ ~builder'.final /\ builder'.last = "flushed")
    => /\ Len(indexer'.metadatas) - Len(indexer.metadatas) >= config.batch_size
       /\ \E new \in {SubSeq(indexer'.metadatas, Len(indexer.metadatas) + 1,
                             Len(indexer'.metadatas))} :
             /\ SubSeq(new, 1, Len(builder.batch_metadatas))
                   = builder.batch_metadatas
             /\ builder'.total_chunks = builder.total_chunks + Len(new)
       /\ builder'.batch_texts = <<>>

\* from the end of the stream on, no buffered chunk is missing from the index
FlushedAtEnd ==
    builder.final
    => /\ builder.pos > Len(stream)
       /\ Range(builder.batch_metadatas) \subseteq Range(indexer.metadatas)
       /\ builder.total_chunks = Len(indexer.metadatas) - hist.loaded.metadatas

\* a run that completes has written the final checkpoint, of the state after
\* the last flush, and writes no checkpoint after it
FinalCheckpointOnce ==
    /\ builder.pc \in {"save", "save_meta", "done"}
       => /\ builder.final
          /\ builder.checkpoints >= 1
          /\ disk.processed_ids = File(builder.processed_ids)
          /\ disk.checkpoint_info = File(CheckpointInfo(builder))
          /\ builder'.pc # "idle"
             => /\ builder'.checkpoints = builder.checkpoints
                /\ disk'.processed_ids = disk.processed_ids
                /\ disk'.checkpoint_info = disk.checkpoint_info
    /\ (builder.final /\ builder.pc = "checkpoint_info")
       => builder'.pc \in {"save", "idle"}

\* C20: after each document the buffer holds fewer than batch_size chunks, a
\* flush taking the whole buffer and clearing it as soon as it holds
\* batch_size chunks or more; at the end of the stream what is left in the
\* buffer is flushed before the final checkpoint, which every normal
\* completion writes exactly once, after the last flush.
C20_FlushDiscipline ==
    /\ [](BufferBelowBatch /\ FlushedAtEnd)
    /\ [][FlushTakesAll /\ FinalCheckpointOnce]_vars

\* a run completed whose last flush was of what the stream had left in the
\* buffer
C20_Witness ==
    /\ builder.pc = "done"
    /\ builder.batch_texts # <<>>
    /\ Len(builder.batch_texts) < config.batch_size
    /\ builder.checkpoints = 1

(***************************************************************************)
(* Properties of the checkpoints of process_documents (Spec).              *)
(***************************************************************************)
\* C21: the processed ids and the checkpoint info are persisted after every
\* tenth flush, whatever the number of chunks of each document: at no point of
\* a run have more than ten flushes completed since the last checkpoint write.
C21_CheckpointEveryTenFlushes == builder.since <= CheckpointEvery

\* the iteration over a document that has a text, is not marked processed,
\* and for which chunk_text returns no chunk: the run goes on with the next
\* document, and the document is neither counted nor marked
EmptyChunkingIsSkipped ==
    (/\ builder.pc = "iter"
     /\ builder.pos <= Len(stream)
     /\ builder'.pc # "idle"
     /\ GetDocId(stream[builder.pos]) \notin builder.processed_ids
     /\ HasText(stream[builder.pos])
     /\ chunk_text(stream[builder.pos].text, config.chunk_size,
                   config.chunk_overlap) = <<>>)
    => /\ builder'.pc = "iter"
       /\ builder'.pos = builder.pos + 1
       /\ builder'.docs_processed = builder.docs_processed
       /\ builder'.processed_ids = builder.processed_ids
       /\ indexer' = indexer

\* C22: a document with a text for which chunking yields no chunk (the
\* tokenizer rejects the text) is treated as skipped: the run continues with
\* the next document without an error, and the document is neither counted as
\* processed nor added to the processed ids.
C22_EmptyChunkingNotMarked == [][EmptyChunkingIsSkipped]_vars

(***************************************************************************)
(* SpecStoreCrash: a FaissIndexer that is added to, saved and loaded, the  *)
(* process being allowed to die at any point, also between the two writes  *)
(* of save(); the next process starts from a fresh FaissIndexer.           *)
(***************************************************************************)
\* save() has written the index file and not yet the metadata file
Saving == hist.prev.last = "save_index"

\* the bound is on both lists: after a load they may differ in length
StoreAddWhole == ~Saving /\ Len(indexer.metadatas) < MaxIndex /\ StoreAdd

StoreLoadWhole == ~Saving /\ StoreLoad

\* save, line 27
StoreSaveIndex ==
    /\ ~Saving
    /\ disk' = [disk EXCEPT !.index = File(indexer.index)]
    /\ hist' = StoreOp("save_index")
    /\ UNCHANGED <<api, embedder, chunker, indexer, query, builder, stream, config>>

\* save, lines 28-29
StoreSaveMeta ==
    /\ Saving
    /\ disk' = [disk EXCEPT !.meta = File(indexer.metadatas)]
    /\ hist' = StoreOp("save")
    /\ UNCHANGED <<api, embedder, chunker, indexer, query, builder, stream, config>>

\* abrupt termination, and __init__ (lines 12-15) in the next process
StoreDie ==
    /\ hist.prev.last # "died"
    /\ indexer' = NewIndexer
    /\ query' = NoQuery
    /\ hist' = StoreOp("died")
    /\ UNCHANGED <<api, embedder, chunker, builder, disk, stream, config>>

NextStoreCrash ==
    \/ StoreAddWhole
    \/ StoreLoadWhole
    \/ StoreSaveIndex
    \/ StoreSaveMeta
    \/ StoreDie

SpecStoreCrash == InitChunk /\ [][NextStoreCrash]_vars

\* C23: whenever no save() is under way, an abrupt termination inside a save()
\* that overwrites earlier artifacts included, the persisted index and the
\* persisted metadata hold the same number of records, and no load() gives an
\* indexer whose vector count differs from its metadata count.
C23_ArtifactsCoupled ==
    /\ (~Saving /\ disk.index.exists /\ disk.meta.exists)
       => Len(disk.index.data) = Len(disk.meta.data)
    /\ Len(indexer.index) = Len(indexer.metadatas)

(***************************************************************************)
(* SpecApi: the retriever service (retriever_api.py).  The endpoint is a  *)
(* coroutine that never awaits, so a request runs to its response before  *)
(* the next one starts: one step per request.  Of a request the model     *)
(* keeps what it asked (question, top_k), what its services did (down:    *)
(* the embedding service fails every attempt; blocked: the generation     *)
(* call fails), what the handler did and what it answered.                *)
(***************************************************************************)
Questions == EmbedTexts

\* lines 79 and 110: the characters of a source text in the prompt, in the answer
PromptChars == 500

RetrievedChars == 200

\* dict.get(key, default)
MetaGet(meta, key, default) ==
    IF key \in DOMAIN meta THEN meta[key] ELSE default

\* the indexers whose artifacts the service may find at its start
SavedIndexers ==
    {NewIndexer} \cup
    {FaissAdd(NewIndexer, vs, [i \in DOMAIN vs |-> Pair(i, vs[i])]) :
        vs \in UNION {[1..n -> StoreVectors] : n \in 1..2}}

ApiDisks == {FreshDisk} \cup {IndexerSave(ix, FreshDisk) : ix \in SavedIndexers}

\* an embedding failure that is swallowed: the request goes on
EmbedIgnored(r) == [r EXCEPT !.vector = <<0, 0>>]

\* lines 58-63: the except clause of the embedding
EmbedFailed(r) ==
    [r EXCEPT !.raised = "HTTPException", !.status = 500,
              !.detail = <<"Failed to embed question",
                           "Failed to embed text after attempts">>]

\* lines 55-63
EmbedQuestion(r) ==
    LET e == embed_texts(<<r.question>>, r.down)
    IN  IF e.raised THEN EmbedFailed(r) ELSE [r EXCEPT !.vector = e.vectors[1]]

\* line 67, with the hits the search gives
SearchChunks(r, ix, hits) ==
    IF r.raised # "none" THEN r
    ELSE LET res == QueryResults(ix, hits)
         IN  [r EXCEPT !.searched = TRUE, !.raised = res.raised,
                       !.results = res.results]

\* lines 75-83: the question and the sources of the prompt
Prompt(r) ==
    <<r.question,
      [i \in DOMAIN r.results |->
          <<MetaGet(r.results[i].metadata, "source", "unknown"),
            PySlice(MetaGet(r.results[i].metadata, "text", <<>>),
                    0, PromptChars)>>]>>

\* lines 87-104: the answer of the model is a function of the prompt
GenerateAnswer(r) ==
    IF r.raised # "none" THEN r
    ELSE IF r.blocked
    THEN [r EXCEPT !.generated = TRUE, !.raised = "HTTPException",
                   !.status = 500,
                   !.detail = <<"Failed to generate answer", "blocked">>]
    ELSE [r EXCEPT !.generated = TRUE, !.answer = Prompt(r)]

\* lines 107-118: the response
Respond(r) ==
    IF r.raised # "none" THEN r
    ELSE [r EXCEPT !.status = 200,
                   !.retrieved =
                       [i \in DOMAIN r.results |->
                           [source |-> MetaGet(r.results[i].metadata,
                                               "source", "None"),
                            text |-> PySlice(MetaGet(r.results[i].metadata,
                                                     "text", <<>>),
                                             0, RetrievedChars),
                            score |-> r.results[i].score]]]

\* lines 48 and 120-124: an HTTPException goes out as it is, any other
\* exception as a server error with the text of the exception
Outer(r) ==
    IF r.raised \in {"none", "HTTPException"} THEN r
    ELSE [r EXCEPT !.status = 500, !.detail = <<r.raised>>]

\* query, lines 45-124
QueryHandler(r, ix, hits) ==
    Outer(Respond(GenerateAnswer(SearchChunks(EmbedQuestion(r), ix, hits))))

\* the kinds of failure the service has answered so far
Failures(seen, r) ==
    seen \cup (IF r.down THEN {"embedding"} ELSE {})
         \cup (IF r.generated /\ r.blocked THEN {"generation"} ELSE {})

\* startup_event, lines 31-43
ApiStartup ==
    /\ api.pc = "down"
    /\ indexer' = IndexerLoad(NewIndexer, disk)
    /\ api' = [api EXCEPT !.pc = IF disk.index.exists /\ disk.meta.exists
                                 THEN "ready" ELSE "RuntimeError"]
    /\ UNCHANGED <<chunker, query, builder, disk, stream, config, embedder, hist>>

\* one POST /query, lines 45-124
ApiQuery ==
    /\ api.pc = "ready"
    /\ \E question \in Questions, top_k \in 1..MaxK, down, blocked \in BOOLEAN :
          LET r == [NoRequest EXCEPT !.question = question, !.top_k = top_k,
                                     !.down = down, !.blocked = blocked]
              v == normalize_L2(EmbedQuestion(r).vector)
          IN  \E hits \in IndexSearch(indexer.index, v, top_k) :
                LET a == QueryHandler(r, indexer, hits)
                IN  /\ api' = [api EXCEPT !.last = a,
                                          !.failures = Failures(@, a)]
                    /\ query' = IF a.searched
                                THEN [called |-> TRUE, vector |-> a.vector,
                                      k |-> top_k,
                                      raised |-> IF a.raised = "IndexError"
                                                 THEN "IndexError" ELSE "none",
                                      results |-> a.results]
                                ELSE NoQuery
    /\ UNCHANGED <<chunker, indexer, builder, disk, stream, config, embedder, hist>>

InitApi ==
    /\ chunker = NoFrame
    /\ indexer = NewIndexer
    /\ query = NoQuery
    /\ builder = NoBuilder
    /\ disk \in ApiDisks
    /\ embedder = NoCall
    /\ api = NoApi
    /\ hist = NoHist
    /\ stream = <<>>
    /\ config = NoConfig

NextApi == ApiStartup \/ ApiQuery

SpecApi == InitApi /\ [][NextApi]_vars

\* a request whose generation call was made and failed
GenerationFailed(r) == r.generated /\ r.blocked

\* C24: a request whose question cannot be embedded ends with a server error
\* that names the embedding failure, without a search and without a generation
\* call; a request whose generation call fails ends with a server error that
\* names the generation failure; the index stays the one loaded at startup;
\* and whatever failures came before, the service takes the next request and
\* answers it when its services are up and the search gives its results.
C24_FailuresAnswered ==
    api.pc = "ready" =>
        LET r == api.last
        IN  /\ indexer = IndexerLoad(NewIndexer, disk)
            /\ r.down =>
                  /\ r.status = 500
                  /\ r.detail[1] = "Failed to embed question"
                  /\ ~r.searched /\ ~r.generated /\ query = NoQuery
            /\ GenerationFailed(r) =>
                  /\ r.status = 500
                  /\ r.detail[1] = "Failed to generate answer"
            /\ (r.top_k > 0 /\ ~r.down /\ ~r.blocked /\ r.raised = "none") =>
                  /\ r.status = 200
                  /\ r.searched /\ r.generated
                  /\ r.answer = Prompt(r)

\* a request answered in full after an embedding failure and a generation
\* failure of earlier requests
C24_Witness ==
    /\ api.pc = "ready"
    /\ api.failures = {"embedding", "generation"}
    /\ api.last.status = 200
    /\ Len(api.last.retrieved) > 0

(***************************************************************************)
(* The state in memory when a checkpoint is written (Spec).                *)
(***************************************************************************)
\* _save_checkpoint is about to write, or is between its two writes
AtCheckpoint == builder.pc \in {"checkpoint", "checkpoint_info"}

\* the records this Builder has added to the index
RunRecords ==
    SubSeq(indexer.metadatas, hist.loaded.metadatas + 1, Len(indexer.metadatas))

BufferEmpty == builder.batch_texts = <<>> /\ builder.batch_metadatas = <<>>

\* the buffer holds nothing but the records of the last flush
BufferFlushed ==
    LET n == Len(builder.batch_metadatas)
    IN  /\ Len(builder.batch_texts) = n
        /\ n <= Len(RunRecords)
        /\ SubSeq(RunRecords, Len(RunRecords) - n + 1, Len(RunRecords))
              = builder.batch_metadatas

\* the positions of the stream whose document this run has chunked, in a
\* process that calls process_documents once: not blank, its id neither in
\* the set loaded at the start nor marked earlier
ChunkedAt ==
    {p \in 1..(builder.pos - 1) :
        /\ ~IsBlank(stream[p].text)
        /\ GetDocId(stream[p]) \notin hist.loaded.ids
        /\ \A q \in 1..(p - 1) :
              IsBlank(stream[q].text)
              \/ GetDocId(stream[q]) # GetDocId(stream[p])}

\* every document chunked in this run whose id is being persisted has each of
\* its chunks among the records added to the index
ChunksIndexed ==
    \A p \in ChunkedAt :
        GetDocId(stream[p]) \in builder.processed_ids
        => Range(ChunkMetadatas(GetDocId(stream[p]),
                                chunk_text(stream[p].text, config.chunk_size,
                                           config.chunk_overlap)))
             \subseteq Range(RunRecords)

\* the total_chunks of the CheckpointInfo being written
TotalMatches == CheckpointInfo(builder).total_chunks = Len(RunRecords)

\* C25, as stated: whenever a checkpoint is written the buffer is empty, the
\* chunks of every document chunked in this run and marked are in the index in
\* memory, and the total_chunks written is the number of records this Builder
\* has added.
C25_CheckpointSeesEmptyBuffer ==
    AtCheckpoint => BufferEmpty /\ ChunksIndexed /\ TotalMatches

\* C25, amended: whenever a checkpoint is written the buffer holds no chunk
\* that is not in the index: it is empty at a periodic checkpoint, and at the
\* final checkpoint it is empty or still holds the records of the flush of
\* what the stream had left; the chunks of every document chunked in this run
\* and marked are in the index in memory, and the total_chunks written is the
\* number of records this Builder has added.
C25_CheckpointSeesFlushedBuffer ==
    AtCheckpoint =>
        /\ ~builder.final => BufferEmpty
        /\ builder.final => BufferEmpty \/ BufferFlushed
        /\ ChunksIndexed
        /\ TotalMatches

\* the final checkpoint is being written after the flush of what was left,
\* which the buffer still holds
C25_Witness ==
    /\ builder.pc = "checkpoint_info"
    /\ builder.final
    /\ builder.batch_texts # <<>>
    /\ ChunkedAt # {}
    /\ TotalMatches /\ Len(RunRecords) > 0

====
